---------------------------- MODULE Spec2Model ----------------------------
(***************************************************************************)
(* State-machine model of SedecordleSolver.py: the pattern oracle          *)
(* (get_pattern, get_pattern_cached), the entropy scorer and the guess     *)
(* selector (calculate_entropy, get_best_guess), the per-board narrowing   *)
(* (update_games, clean_constraints) and the driver loop of main().        *)
(*                                                                         *)
(* A word is a sequence of five one-letter strings.  A pattern is a        *)
(* sequence of five symbols "C" (Correct), "P" (Present), "A" (Absent).    *)
(***************************************************************************)
EXTENDS Integers, Sequences, FiniteSets, TLC

VARIABLES
    games,          \* solver.games: one record per board
    cache,          \* SedecordleSolver._pattern_cache: (guess, target) -> pattern
    pc,             \* position of main() (or of a unit specification)
    attempt,        \* iterations of "for attempt in range(21)" started so far
    best_guess,     \* main's best_guess
    active_games,   \* main's active_games (board indices, increasing)
    idx,            \* position in active_games of the next feedback prompt
    all_feedbacks,  \* main's all_feedbacks
    asked,          \* history: the boards prompted in the current round, in order
    truthfulFor,    \* history: per board, the answers t for which every feedback
                    \* applied so far was get_pattern(guess, t)
    pg, pt, ret,    \* unit specifications: arguments and result of the last call
    before          \* unit specifications: games before the last call

vars == <<games, cache, pc, attempt, best_guess, active_games, idx,
          all_feedbacks, asked, truthfulFor, pg, pt, ret, before>>

---------------------------------------------------------------------------
(* Program constants and the bound of the model *)

\* The code creates 16 boards (range(16)); the model checks NumBoards of them.
NumBoards == 2

WordLen == 5

MaxAttempts == 21

ScanCap == 2316

\* Python's None, as the empty sequence (no word, no pattern)
None == <<>>

Unknown == "?"

---------------------------------------------------------------------------
(* Word lists (the contents of the two word files) *)

ELECT == <<"E", "L", "E", "C", "T">>
TREES == <<"T", "R", "E", "E", "S">>
STEER == <<"S", "T", "E", "E", "R">>
CRANE == <<"C", "R", "A", "N", "E">>
TRACE == <<"T", "R", "A", "C", "E">>

\* self.answers
Answers == <<ELECT, TREES, STEER>>

\* self.allowed
Allowed == <<ELECT, TREES, STEER, CRANE>>

Range(s) == {s[i] : i \in DOMAIN s}

Positions == 1..WordLen

\* The letters of the unit specifications' words
PatLetters == {"E", "S", "T"}

PatWords == [Positions -> PatLetters] \cup {CRANE, TRACE} \cup Range(Answers)

---------------------------------------------------------------------------
(* get_pattern *)

\* First pass (lines 47-50): positions with the same letter are Correct, and
\* each one consumes an occurrence of its letter.
FirstPassPattern(guess, target) ==
    [i \in Positions |-> IF guess[i] = target[i] THEN "C" ELSE ""]

FirstPassCounts(guess, target) ==
    [l \in Range(guess) \cup Range(target) |->
        Cardinality({i \in Positions : guess[i] = target[i] /\ target[i] = l})]

\* Second pass (lines 53-62), left to right from position i.
RECURSIVE SecondPass(_, _, _, _, _)
SecondPass(guess, target, i, pattern, counts) ==
    IF i > WordLen THEN pattern
    ELSE IF pattern[i] = "C" THEN SecondPass(guess, target, i + 1, pattern, counts)
    ELSE LET g == guess[i]
             total_in_target == Cardinality({j \in Positions : target[j] = g})
         IN  IF total_in_target > counts[g]
             THEN SecondPass(guess, target, i + 1,
                             [pattern EXCEPT ![i] = "P"],
                             [counts EXCEPT ![g] = @ + 1])
             ELSE SecondPass(guess, target, i + 1,
                             [pattern EXCEPT ![i] = "A"], counts)

\* A second pass that never consumes an occurrence (a dropped "counts[g] += 1").
GetPatternNoConsume(guess, target) ==
    [i \in Positions |->
        IF guess[i] = target[i] THEN "C"
        ELSE IF guess[i] \in Range(target) THEN "P" ELSE "A"]

\* A second pass whose test is off by one ("total_in_target >= counts[g]").
RECURSIVE SecondPassGeq(_, _, _, _, _)
SecondPassGeq(guess, target, i, pattern, counts) ==
    IF i > WordLen THEN pattern
    ELSE IF pattern[i] = "C" THEN SecondPassGeq(guess, target, i + 1, pattern, counts)
    ELSE LET g == guess[i]
             total_in_target == Cardinality({j \in Positions : target[j] = g})
         IN  IF total_in_target >= counts[g]
             THEN SecondPassGeq(guess, target, i + 1,
                                [pattern EXCEPT ![i] = "P"],
                                [counts EXCEPT ![g] = @ + 1])
             ELSE SecondPassGeq(guess, target, i + 1,
                                [pattern EXCEPT ![i] = "A"], counts)

GetPatternGeq(guess, target) ==
    SecondPassGeq(guess, target, 1, FirstPassPattern(guess, target),
                  FirstPassCounts(guess, target))

\* A second pass that runs right to left ("for i in reversed(range(5))").
RECURSIVE SecondPassRightToLeft(_, _, _, _, _)
SecondPassRightToLeft(guess, target, i, pattern, counts) ==
    IF i < 1 THEN pattern
    ELSE IF pattern[i] = "C"
         THEN SecondPassRightToLeft(guess, target, i - 1, pattern, counts)
    ELSE LET g == guess[i]
             total_in_target == Cardinality({j \in Positions : target[j] = g})
         IN  IF total_in_target > counts[g]
             THEN SecondPassRightToLeft(guess, target, i - 1,
                                        [pattern EXCEPT ![i] = "P"],
                                        [counts EXCEPT ![g] = @ + 1])
             ELSE SecondPassRightToLeft(guess, target, i - 1,
                                        [pattern EXCEPT ![i] = "A"], counts)

GetPatternRightToLeft(guess, target) ==
    SecondPassRightToLeft(guess, target, WordLen, FirstPassPattern(guess, target),
                          FirstPassCounts(guess, target))

GetPattern(guess, target) ==
    SecondPass(guess, target, 1, FirstPassPattern(guess, target),
               FirstPassCounts(guess, target))

---------------------------------------------------------------------------
(* get_pattern_cached *)

EmptyCache == [k \in {} |-> <<>>]

\* The memo is keyed by the guess alone ("key = guess").
GetPatternCachedByGuess(c, guess, target) ==
    LET key == <<guess, guess>>
    IN  IF key \in DOMAIN c
        THEN [ret |-> c[key], cache |-> c]
        ELSE LET p == GetPattern(guess, target)
             IN  [ret |-> p, cache |-> [k \in DOMAIN c \cup {key} |->
                                           IF k = key THEN p ELSE c[k]]]

\* Lines 67-72: the value returned and the cache left behind.
GetPatternCached(c, guess, target) ==
    LET key == <<guess, target>>
    IN  IF key \in DOMAIN c
        THEN [ret |-> c[key], cache |-> c]
        ELSE LET p == GetPattern(guess, target)
             IN  [ret |-> p, cache |-> [k \in DOMAIN c \cup {key} |->
                                           IF k = key THEN p ELSE c[k]]]

---------------------------------------------------------------------------
(* calculate_entropy *)

\* math.log2 on the counts that occur, in fixed point: log2(3) is taken as
\* 1054/665, a convergent of its continued fraction, so that for integers a, b
\* with |b| < 971 the sign of a + b*log2(3) is the sign of 665*a + 1054*b.
\* Sums of the scaled entropies below are therefore ordered exactly as the
\* real-valued sums are.
Log2Fix(k) ==
    CASE k = 1 -> 0
      [] k = 2 -> 665
      [] k = 3 -> 1054
      [] k = 4 -> 1330

\* Lines 81-85: the patterns of word against a board's candidates, in order,
\* each obtained through the cache; returns the patterns and the cache.
RECURSIVE PatternsOf(_, _, _, _, _)
PatternsOf(word, possible, j, c, acc) ==
    IF j > Len(possible) THEN [patterns |-> acc, cache |-> c]
    ELSE LET r == GetPatternCached(c, word, possible[j])
         IN  PatternsOf(word, possible, j + 1, r.cache, Append(acc, r.ret))

\* Lines 88-90: the entropy of one board, times 12 * 665:
\* -(count/total) * log2(count/total) summed over the distinct patterns is
\* log2(total) - (1/total) * sum of count * log2(count).
RECURSIVE SumCounts(_, _)
SumCounts(patterns, distinct) ==
    IF distinct = {} THEN 0
    ELSE LET p == CHOOSE x \in distinct : TRUE
             count == Cardinality({j \in DOMAIN patterns : patterns[j] = p})
         IN  count * Log2Fix(count) + SumCounts(patterns, distinct \ {p})

BoardEntropy(patterns) ==
    LET total == Len(patterns)
    IN  12 * Log2Fix(total) - (12 \div total) * SumCounts(patterns, Range(patterns))

\* Lines 74-93: the total over the boards from position b on; boards without
\* candidates are skipped.
RECURSIVE CalculateEntropyFrom(_, _, _, _, _)
CalculateEntropyFrom(word, game_states, b, c, total_entropy) ==
    IF b > Len(game_states) THEN [score |-> total_entropy, cache |-> c]
    ELSE IF game_states[b].possible = <<>>
         THEN CalculateEntropyFrom(word, game_states, b + 1, c, total_entropy)
    ELSE LET r == PatternsOf(word, game_states[b].possible, 1, c, <<>>)
         IN  CalculateEntropyFrom(word, game_states, b + 1, r.cache,
                                  total_entropy + BoardEntropy(r.patterns))

CalculateEntropy(word, game_states, c) ==
    CalculateEntropyFrom(word, game_states, 1, c, 0)

---------------------------------------------------------------------------
(* get_best_guess *)

\* -float('inf'); a finite best_score s is kept as <<s>>
NegInf == <<>>


\* best_score starts at 0 instead of -inf.
GreaterFromZero(score, best_score) ==
    IF best_score = NegInf THEN score > 0 ELSE score > best_score[1]

\* Line 97
ActiveGames(gs) == SelectSeq(gs, LAMBDA g : g.possible # <<>>)

\* A comparison that lets a later word of equal score win ("score >= best_score").
GreaterOrEqual(score, best_score) == best_score = NegInf \/ score >= best_score[1]


\* Line 111: score > best_score
Greater(score, best_score) == best_score = NegInf \/ score > best_score[1]

\* Line 106: self.allowed[:2316]
Candidates(allowed) ==
    SubSeq(allowed, 1, IF Len(allowed) < ScanCap THEN Len(allowed) ELSE ScanCap)

\* Lines 109-114: the scan, from candidate k on.
RECURSIVE Scan(_, _, _, _, _, _)
Scan(candidates, active, k, c, best_word, best_score) ==
    IF k > Len(candidates) THEN [word |-> best_word, cache |-> c]
    ELSE LET r == CalculateEntropy(candidates[k], active, c)
         IN  IF Greater(r.score, best_score)
             THEN Scan(candidates, active, k + 1, r.cache, candidates[k], <<r.score>>)
             ELSE Scan(candidates, active, k + 1, r.cache, best_word, best_score)

\* Lines 95-116: the word returned (or None) and the cache left behind.
GetBestGuess(gs, allowed, c) ==
    IF ActiveGames(gs) = <<>> THEN [word |-> None, cache |-> c]
    ELSE Scan(Candidates(allowed), ActiveGames(gs), 1, c, None, NegInf)

---------------------------------------------------------------------------
(* update_games *)

Letters(word) == Range(word)

\* game['correct'] as the "in" operator sees it: the list's values
CorrectValues(game) == Range(game.correct)

\* Lines 128-136 without "game['present'].remove(letter)".
RECURSIVE ApplyFeedbackKeepPresent(_, _, _)
ApplyFeedbackKeepPresent(game, feedback, i) ==
    IF i > Len(feedback) THEN game
    ELSE LET letter == feedback[i][1]
             color == feedback[i][2]
         IN  CASE color = "C" ->
                    ApplyFeedbackKeepPresent([game EXCEPT !.correct[i] = letter],
                                             feedback, i + 1)
               [] color = "P" ->
                    ApplyFeedbackKeepPresent([game EXCEPT !.present = @ \cup {letter}],
                                             feedback, i + 1)
               [] color = "A" ->
                    ApplyFeedbackKeepPresent([game EXCEPT !.absent = @ \cup {letter}],
                                             feedback, i + 1)
               [] OTHER -> ApplyFeedbackKeepPresent(game, feedback, i + 1)

\* Lines 128-136: the feedback pairs from position i on, in order.
RECURSIVE ApplyFeedback(_, _, _)
ApplyFeedback(game, feedback, i) ==
    IF i > Len(feedback) THEN game
    ELSE LET letter == feedback[i][1]
             color == feedback[i][2]
         IN  CASE color = "C" ->
                    ApplyFeedback([game EXCEPT !.correct[i] = letter,
                                               !.present = @ \ {letter}],
                                  feedback, i + 1)
               [] color = "P" ->
                    ApplyFeedback([game EXCEPT !.present = @ \cup {letter}],
                                  feedback, i + 1)
               [] color = "A" ->
                    ApplyFeedback([game EXCEPT !.absent = @ \cup {letter}],
                                  feedback, i + 1)
               [] OTHER -> ApplyFeedback(game, feedback, i + 1)

\* Lines 140-162 without the check of the known correct positions.
ValidNoCorrect(word, game) ==
    /\ \A p \in game.present : p \in Letters(word)
    /\ ~ \E a \in game.absent :
            a \notin CorrectValues(game) /\ a \notin game.present /\ a \in Letters(word)
    /\ ~ \E i \in Positions :
            word[i] \in game.present /\ word[i] = game.correct[i]

\* Lines 140-162: whether a word passes the four checks.
Valid(word, game) ==
    /\ \A i \in Positions : game.correct[i] # Unknown => word[i] = game.correct[i]
    /\ \A p \in game.present : p \in Letters(word)
    /\ ~ \E a \in game.absent :
            a \notin CorrectValues(game) /\ a \notin game.present /\ a \in Letters(word)
    /\ ~ \E i \in Positions :
            word[i] \in game.present /\ word[i] = game.correct[i]

\* The filter runs over the whole answer list instead of game['possible'].
NewPossibleFromAnswers(game) == SelectSeq(Answers, LAMBDA word : Valid(word, game))

\* Lines 125, 139-165: new_possible
NewPossible(game) == SelectSeq(game.possible, LAMBDA word : Valid(word, game))

\* Lines 124-167 for one board
UpdateGame(game, feedback) ==
    LET g == ApplyFeedback(game, feedback, 1)
    IN  [g EXCEPT !.possible = NewPossible(g)]

\* The boards are one shared object ("[{...}] * 16"): every feedback is
\* applied to it in turn and every board shows the result.
RECURSIVE UpdateShared(_, _, _)
UpdateShared(game, feedbacks, b) ==
    IF b > Len(feedbacks) THEN game
    ELSE IF feedbacks[b] = <<>> THEN UpdateShared(game, feedbacks, b + 1)
    ELSE UpdateShared(UpdateGame(game, feedbacks[b]), feedbacks, b + 1)

UpdateGamesShared(gs, feedbacks) ==
    [b \in DOMAIN gs |-> UpdateShared(gs[1], feedbacks, 1)]


\* Lines 118-167
UpdateGames(gs, feedbacks) ==
    [b \in DOMAIN gs |->
        IF feedbacks[b] = <<>> THEN gs[b] ELSE UpdateGame(gs[b], feedbacks[b])]

---------------------------------------------------------------------------
(* clean_constraints *)

\* The first assignment reads game['absent'] instead of game['present'].
CleanGameFromAbsent(game) ==
    LET present == {p \in game.absent : p \notin CorrectValues(game)}
    IN  [game EXCEPT !.present = present,
                     !.absent = {a \in game.absent :
                                    a \notin CorrectValues(game) /\ a \notin present}]

\* clean_constraints without its first assignment (line 172 dropped)
CleanGameAbsentOnly(game) ==
    [game EXCEPT !.absent = {a \in game.absent :
                                a \notin CorrectValues(game) /\ a \notin game.present}]


\* Lines 172-174 for one board
CleanGame(game) ==
    LET present == {p \in game.present : p \notin CorrectValues(game)}
    IN  [game EXCEPT !.present = present,
                     !.absent = {a \in game.absent :
                                    a \notin CorrectValues(game) /\ a \notin present}]

\* Lines 169-174
CleanConstraints(gs) == [b \in DOMAIN gs |-> CleanGame(gs[b])]

---------------------------------------------------------------------------
(* __init__ and main *)

Boards == 1..NumBoards

\* Lines 19-24
NewGame ==
    [possible |-> Answers,
     correct  |-> [i \in Positions |-> Unknown],
     present  |-> {},
     absent   |-> {}]

\* list(zip(guess, fb)), line 205
Zip(guess, fb) == [i \in Positions |-> <<guess[i], fb[i]>>]

AllCorrect == [i \in Positions |-> "C"]
AllAbsent  == [i \in Positions |-> "A"]

\* What the player may type for a board (any string of five C/P/A passes line
\* 204): the pattern of the guess against any answer, which is truthful for
\* that target, or one of two fixed patterns that need not be truthful for any.
FeedbackInputs(guess) ==
    {GetPattern(guess, t) : t \in Range(Answers)} \cup {AllCorrect, AllAbsent}

\* The answers for which the feedback given for guess is the true pattern
TruthfulTargets(guess, feedback) ==
    {t \in Range(Answers) : Zip(guess, GetPattern(guess, t)) = feedback}

\* The completion test without its break (lines 255-257 dropped): the loop
\* goes on to the next get_best_guess call.
AllSolvedNever(gs) == \A b \in DOMAIN gs : gs[b].possible = <<>> /\ FALSE


AllSolved(gs) == \A b \in DOMAIN gs : gs[b].possible = <<>>

Init ==
    /\ games = [b \in Boards |-> NewGame]
    /\ cache = EmptyCache
    /\ pc = "select"
    /\ attempt = 0
    /\ best_guess = None
    /\ active_games = <<>>
    /\ idx = 1
    /\ all_feedbacks = [b \in Boards |-> <<>>]
    /\ asked = <<>>
    /\ truthfulFor = [b \in Boards |-> Range(Answers)]
    /\ pg = None /\ pt = None /\ ret = None /\ before = <<>>

\* Every board's index instead of the active ones.
ActiveIdxAll(gs) == [b \in 1..Len(gs) |-> b]

\* Line 237
\* The active boards listed from the last board down ("reversed(...)").
ActiveIdxDescending(gs) ==
    LET up == SelectSeq([b \in 1..Len(gs) |-> b], LAMBDA b : gs[b].possible # <<>>)
    IN  [k \in 1..Len(up) |-> up[Len(up) + 1 - k]]


ActiveIdx(gs) == SelectSeq([b \in 1..Len(gs) |-> b], LAMBDA b : gs[b].possible # <<>>)

\* Lines 223-241: one more iteration starts; the guess is selected, and either
\* the loop is left (line 231) or the feedback prompts begin.
SelectGuess ==
    /\ pc = "select"
    /\ attempt < MaxAttempts
    /\ attempt' = attempt + 1
    /\ LET r == GetBestGuess(games, Allowed, cache)
       IN  /\ best_guess' = r.word
           /\ cache' = r.cache
           /\ IF r.word = None
              THEN /\ pc' = "done"
                   /\ UNCHANGED <<active_games, idx, all_feedbacks, asked>>
              ELSE /\ active_games' = ActiveIdx(games)
                   /\ all_feedbacks' = [b \in Boards |-> <<>>]
                   /\ idx' = 1
                   /\ asked' = <<>>
                   /\ pc' = IF ActiveIdx(games) = <<>> THEN "update" ELSE "collect"
    /\ UNCHANGED <<games, truthfulFor, pg, pt, ret, before>>

\* Line 223: range(21) is exhausted.
LoopExhausted ==
    /\ pc = "select"
    /\ attempt = MaxAttempts
    /\ pc' = "done"
    /\ UNCHANGED <<games, cache, attempt, best_guess, active_games, idx,
                   all_feedbacks, asked, truthfulFor, pg, pt, ret, before>>

AfterPrompt ==
    /\ idx' = idx + 1
    /\ asked' = Append(asked, active_games[idx])
    /\ pc' = IF idx = Len(active_games) THEN "update" ELSE "collect"
    /\ UNCHANGED <<cache, attempt, best_guess, active_games, pg, pt, ret, before>>

\* Lines 243, 248-249: the player types a pattern for the next active board.
GiveFeedback ==
    /\ pc = "collect"
    /\ \E fb \in FeedbackInputs(best_guess) :
          all_feedbacks' = [all_feedbacks EXCEPT ![active_games[idx]] = Zip(best_guess, fb)]
    /\ UNCHANGED <<games, truthfulFor>>
    /\ AfterPrompt

\* Lines 243, 245-247: the player types SOLVED for the next active board.
GiveSolved ==
    /\ pc = "collect"
    /\ games' = [games EXCEPT ![active_games[idx]].possible = <<>>]
    /\ truthfulFor' = [truthfulFor EXCEPT ![active_games[idx]] = {}]
    /\ UNCHANGED all_feedbacks
    /\ AfterPrompt

\* Line 252
UpdateGamesStep ==
    /\ pc = "update"
    /\ games' = UpdateGames(games, all_feedbacks)
    /\ truthfulFor' = [b \in Boards |->
          IF all_feedbacks[b] = <<>> THEN truthfulFor[b]
          ELSE truthfulFor[b] \cap TruthfulTargets(best_guess, all_feedbacks[b])]
    /\ pc' = "clean"
    /\ UNCHANGED <<cache, attempt, best_guess, active_games, idx, all_feedbacks,
                   asked, pg, pt, ret, before>>

\* Lines 253-257
CleanConstraintsStep ==
    /\ pc = "clean"
    /\ games' = CleanConstraints(games)
    /\ pc' = IF AllSolved(games') THEN "done" ELSE "select"
    /\ UNCHANGED <<cache, attempt, best_guess, active_games, idx, all_feedbacks,
                   asked, truthfulFor, pg, pt, ret, before>>

Next ==
    \/ SelectGuess
    \/ LoopExhausted
    \/ GiveFeedback
    \/ GiveSolved
    \/ UpdateGamesStep
    \/ CleanConstraintsStep

Spec == Init /\ [][Next]_vars

\* main runs to its end: every prompt is answered and the program keeps
\* executing, so a step that can be taken is eventually taken. The prompts are
\* weakly fair. Each other step (guess selection or loop exit at the loop
\* head, update_games, clean_constraints) can be taken exactly at its own
\* position and leaves it, so its weak fairness is that the program is again
\* and again not waiting at that position.
AtLoopHead == pc = "select"

FairSpec ==
    /\ Spec
    /\ WF_vars(GiveFeedback \/ GiveSolved)
    /\ []<>(~ AtLoopHead)
    /\ []<>(pc # "update")
    /\ []<>(pc # "clean")

---------------------------------------------------------------------------
(* Unit specification of get_pattern: one call on any pair of words *)

\* main's variables, untouched by the unit specifications
SessionIdle ==
    /\ attempt = 0
    /\ best_guess = None
    /\ active_games = <<>>
    /\ idx = 1
    /\ all_feedbacks = [b \in Boards |-> <<>>]
    /\ asked = <<>>
    /\ truthfulFor = [b \in Boards |-> Range(Answers)]

InitPattern ==
    /\ pg \in PatWords
    /\ pt \in PatWords
    /\ ret = None
    /\ pc = "call"
    /\ games = [b \in Boards |-> NewGame]
    /\ cache = EmptyCache
    /\ before = <<>>
    /\ SessionIdle

CallGetPattern ==
    /\ pc = "call"
    /\ ret' = GetPattern(pg, pt)
    /\ pc' = "return"
    /\ UNCHANGED <<games, cache, attempt, best_guess, active_games, idx,
                   all_feedbacks, asked, truthfulFor, pg, pt, before>>

NextPattern == CallGetPattern

SpecPattern == InitPattern /\ [][NextPattern]_vars

---------------------------------------------------------------------------
(* Unit specification of get_pattern_cached: calls in any order *)

CacheWords == Range(Answers)

InitCache ==
    /\ cache = EmptyCache
    /\ pg = None /\ pt = None /\ ret = None
    /\ pc = "idle"
    /\ games = [b \in Boards |-> NewGame]
    /\ before = <<>>
    /\ SessionIdle

CallGetPatternCached ==
    \E guess \in CacheWords, target \in CacheWords :
        LET r == GetPatternCached(cache, guess, target)
        IN  /\ cache' = r.cache
            /\ ret' = r.ret
            /\ pg' = guess
            /\ pt' = target
            /\ pc' = "returned"
            /\ UNCHANGED <<games, attempt, best_guess, active_games, idx,
                           all_feedbacks, asked, truthfulFor, before>>

NextCache == CallGetPatternCached

SpecCache == InitCache /\ [][NextCache]_vars

---------------------------------------------------------------------------
(* Unit specification of clean_constraints: two calls from any board state *)

CleanLetters == {"E", "T"}

\* Any 'correct' vector, 'present' set and 'absent' set over CleanLetters
AnyGame ==
    [possible : {Answers},
     correct  : [Positions -> CleanLetters \cup {Unknown}],
     present  : SUBSET CleanLetters,
     absent   : SUBSET CleanLetters]

\* The other boards: a new one, or a solved one with overlapping constraints
OtherGames ==
    {NewGame,
     [possible |-> <<>>,
      correct  |-> [i \in Positions |-> IF i = 1 THEN "S" ELSE Unknown],
      present  |-> {"S", "R"},
      absent   |-> {"S", "R", "E"}]}

InitClean ==
    /\ games \in {[b \in Boards |-> IF b = 1 THEN g ELSE o[b]] :
                     g \in AnyGame, o \in [Boards -> OtherGames]}
    /\ before = <<>>
    /\ pc = "clean"
    /\ cache = EmptyCache
    /\ pg = None /\ pt = None /\ ret = None
    /\ SessionIdle

CallCleanConstraints ==
    /\ pc = "clean"
    /\ Len(before) < 2
    /\ before' = Append(before, games)
    /\ games' = CleanConstraints(games)
    /\ UNCHANGED <<cache, pc, attempt, best_guess, active_games, idx,
                   all_feedbacks, asked, truthfulFor, pg, pt, ret>>

NextClean == CallCleanConstraints

SpecClean == InitClean /\ [][NextClean]_vars

---------------------------------------------------------------------------
(* Unit specification of update_games: one call, any boards given feedback *)

\* Board states for the call: new, narrowed by an earlier round, emptied
UpdateBoards ==
    {NewGame,
     [possible |-> <<TREES, STEER>>,
      correct  |-> [i \in Positions |-> IF i = 3 THEN "E" ELSE Unknown],
      present  |-> {"T"},
      absent   |-> {"L"}],
     [possible |-> <<>>,
      correct  |-> [i \in Positions |-> IF i = 1 THEN "S" ELSE Unknown],
      present  |-> {"R"},
      absent   |-> {"C"}]}

\* The 'feedbacks' argument: per board nothing, or the guess zipped with symbols
FeedbackLists(guess) ==
    [Boards -> {<<>>} \cup {Zip(guess, fb) : fb \in FeedbackInputs(guess)}]

InitUpdate ==
    /\ games \in [Boards -> UpdateBoards]
    /\ best_guess \in Range(Allowed)
    /\ all_feedbacks \in FeedbackLists(best_guess)
    /\ before = <<>>
    /\ pc = "feedbacks"
    /\ cache = EmptyCache
    /\ pg = None /\ pt = None /\ ret = None
    /\ attempt = 0
    /\ active_games = <<>>
    /\ idx = 1
    /\ asked = <<>>
    /\ truthfulFor = [b \in Boards |-> Range(Answers)]

CallUpdateGames ==
    /\ pc = "feedbacks"
    /\ before' = <<games>>
    /\ games' = UpdateGames(games, all_feedbacks)
    /\ pc' = "updated"
    /\ UNCHANGED <<cache, attempt, best_guess, active_games, idx,
                   all_feedbacks, asked, truthfulFor, pg, pt, ret>>

NextUpdate == CallUpdateGames

SpecUpdate == InitUpdate /\ [][NextUpdate]_vars

---------------------------------------------------------------------------
(* Helpers of the properties *)

\* s is a sub-sequence of t: the elements of s occur in t in the same order.
RECURSIVE IsSubSeqFrom(_, _, _, _)
IsSubSeqFrom(s, t, i, j) ==
    IF i > Len(s) THEN TRUE
    ELSE IF j > Len(t) THEN FALSE
    ELSE IF s[i] = t[j] THEN IsSubSeqFrom(s, t, i + 1, j + 1)
    ELSE IsSubSeqFrom(s, t, i, j + 1)

IsSubSeq(s, t) == IsSubSeqFrom(s, t, 1, 1)

Occurrences(word, l) == Cardinality({i \in Positions : word[i] = l})

\* update_games is the step being taken
UpdateGamesCall == pc = "update" /\ pc' = "clean"

\* Between rounds: at the head of the loop, or after it
RoundBoundary == pc \in {"select", "done"}

---------------------------------------------------------------------------
(* Properties *)

\* C1: under truthful feedback the hidden target stays a candidate: every
\* answer t for which all feedback applied to a board so far was
\* get_pattern(guess, t) is still in that board's 'possible' list.
C1_TargetStaysPossible ==
    \A b \in Boards : truthfulFor[b] \subseteq Range(games[b].possible)

\* C2: no step, and in particular no update_games call, adds a word to a
\* board's 'possible' list or reorders it: the list after the step is a
\* sub-sequence of the list before.
C2_MonotonicFilter ==
    [][\A b \in Boards : IsSubSeq(games'[b].possible, games[b].possible)]_vars

\* An update_games call has narrowed a board to fewer, but some, candidates.
C2_Witness ==
    /\ pc = "clean"
    /\ \E b \in Boards :
          /\ all_feedbacks[b] # <<>>
          /\ Len(games[b].possible) > 1
          /\ Len(games[b].possible) < Len(Answers)

\* C3: in every state of the session, get_best_guess returns None exactly
\* when every board's 'possible' list is empty, and otherwise a word of the
\* allowed list.
C3_NoneIffAllSolved ==
    LET w == GetBestGuess(games, Allowed, cache).word
    IN  /\ (w = None) <=> AllSolved(games)
        /\ ~ AllSolved(games) => w \in Range(Allowed)

\* The session has ended before the cap with every board empty, and
\* get_best_guess returns None there.
C3_Witness ==
    /\ pc = "done"
    /\ attempt < MaxAttempts
    /\ AllSolved(games)
    /\ GetBestGuess(games, Allowed, cache).word = None

\* C4: get_pattern(g, t) is Correct exactly where g and t agree, marks at most
\* as many occurrences of a letter Correct or Present as t holds, and is
\* all-Correct when g = t.
C4_PatternCounts ==
    pc = "return" =>
        /\ \A i \in Positions : (ret[i] = "C") <=> (pg[i] = pt[i])
        /\ \A i \in Positions : ret[i] \in {"C", "P", "A"}
        /\ \A l \in Range(pg) :
              Cardinality({i \in Positions : pg[i] = l /\ ret[i] \in {"C", "P"}})
                 <= Occurrences(pt, l)
        /\ pg = pt => ret = AllCorrect

\* A call whose guess repeats a letter more often than the target holds it:
\* one occurrence is marked Present and a later one Absent.
C4_Witness ==
    /\ pc = "return"
    /\ \E i, j \in Positions :
          /\ i < j
          /\ pg[i] = pg[j]
          /\ ret[i] = "P"
          /\ ret[j] = "A"

\* C5: every cache entry is the pattern get_pattern computes for its key,
\* every call returns that pattern, and a call on a cached key returns the
\* cached value and leaves the cache as it was.
C5_CacheAgrees ==
    /\ [](\A k \in DOMAIN cache : cache[k] = GetPattern(k[1], k[2]))
    /\ [](pc = "returned" => ret = GetPattern(pg, pt))
    /\ [][(<<pg, pt>>' \in DOMAIN cache) =>
             (cache' = cache /\ ret' = cache[<<pg, pt>>'])]_vars

\* A repeated call: the key was cached before the last call, among others.
C5_Witness ==
    /\ pc = "returned"
    /\ Cardinality(DOMAIN cache) = Cardinality(CacheWords) * Cardinality(CacheWords)
    /\ pg # pt

\* C6: a second clean_constraints right after a first leaves 'present' and
\* 'absent' of every board as the first left them, and no run changes
\* 'correct' or 'possible'.
C6_CleanIdempotent ==
    /\ Len(before) = 2 =>
          \A b \in Boards :
              /\ games[b].present = before[2][b].present
              /\ games[b].absent = before[2][b].absent
    /\ \A k \in DOMAIN before : \A b \in Boards :
          /\ games[b].correct = before[k][b].correct
          /\ games[b].possible = before[k][b].possible

\* Two runs, the first of which removed letters from both sets of a board.
C6_Witness ==
    /\ Len(before) = 2
    /\ \E b \in Boards :
          /\ before[2][b].present # before[1][b].present
          /\ before[2][b].absent # before[1][b].absent
          /\ before[2][b].present # {}

\* C7, as claimed: all-Correct feedback for a guess w of the answer list
\* leaves the board's 'possible' list equal to [w], whatever was recorded.
C7_AllCorrectLeavesGuess ==
    [][UpdateGamesCall =>
          \A b \in Boards :
              (/\ all_feedbacks[b] = Zip(best_guess, AllCorrect)
               /\ best_guess \in Range(Answers))
              => games'[b].possible = <<best_guess>>]_vars

\* C7, amended: all-Correct feedback for a guess w that is still in the
\* board's 'possible' list leaves that list equal to [w].
C7_AllCorrectKeepsCandidate ==
    [][UpdateGamesCall =>
          \A b \in Boards :
              (/\ all_feedbacks[b] = Zip(best_guess, AllCorrect)
               /\ best_guess \in Range(games[b].possible))
              => games'[b].possible = <<best_guess>>]_vars

\* In a round after the first, a board that still had a present letter
\* recorded has been narrowed to the guess by all-Correct feedback.
C7_Witness ==
    /\ pc = "clean"
    /\ attempt > 1
    /\ \E b \in Boards :
          /\ all_feedbacks[b] = Zip(best_guess, AllCorrect)
          /\ games[b].possible = <<best_guess>>
          /\ games[b].absent = {}

\* C8: a board whose 'possible' list is empty keeps it empty in every later
\* step, is never the board prompted for feedback, is left as it is by
\* update_games, and adds nothing to the score of any candidate guess.
C8_SolvedStaysSolved ==
    [][\A b \in Boards :
          games[b].possible = <<>> =>
              /\ games'[b].possible = <<>>
              /\ ~ (pc = "collect" /\ active_games[idx] = b)
              /\ UpdateGamesCall => games'[b] = games[b]
              /\ pc = "select" =>
                    \A k \in DOMAIN Candidates(Allowed) :
                        CalculateEntropy(Candidates(Allowed)[k], games, cache).score
                          = CalculateEntropy(Candidates(Allowed)[k],
                                             ActiveGames(games), cache).score]_vars

\* A later round in which update_games has run on an active board while
\* another board, emptied by SOLVED, got no feedback.
C8_Witness ==
    /\ pc = "clean"
    /\ attempt > 1
    /\ \E b, c \in Boards :
          /\ games[b].possible = <<>>
          /\ truthfulFor[b] = {}
          /\ all_feedbacks[b] = <<>>
          /\ all_feedbacks[c] # <<>>
          /\ games[c].possible # <<>>

\* C9: between rounds every candidate of every board matches the known
\* letters of 'correct', contains every letter of 'present', and contains no
\* letter of 'absent' that is neither a value of 'correct' nor in 'present'.
C9_CandidatesConsistent ==
    RoundBoundary =>
        \A b \in Boards : \A k \in DOMAIN games[b].possible :
            LET w == games[b].possible[k]
                g == games[b]
            IN  /\ \A i \in Positions : g.correct[i] # Unknown => w[i] = g.correct[i]
                /\ \A p \in g.present : p \in Letters(w)
                /\ \A a \in g.absent :
                      a \in Letters(w) => a \in CorrectValues(g) \/ a \in g.present

\* After a round, a board with several candidates, known letters and
\* present letters.
C9_Witness ==
    /\ pc = "select"
    /\ attempt > 0
    /\ \E b \in Boards :
          /\ Len(games[b].possible) > 1
          /\ games[b].present # {}
          /\ \E i \in Positions : games[b].correct[i] # Unknown

\* C10, as claimed: get_pattern("CRANE", "TRACE") is (A, C, P, P, C).
C10_CraneTraceClaimed ==
    (pc = "return" /\ pg = CRANE /\ pt = TRACE) => ret = <<"A", "C", "P", "P", "C">>

\* C10, amended: get_pattern("CRANE", "TRACE") is (P, C, C, A, C).
C10_CraneTrace ==
    (pc = "return" /\ pg = CRANE /\ pt = TRACE) => ret = <<"P", "C", "C", "A", "C">>

\* get_pattern has returned for the guess CRANE and the target TRACE.
C10_Witness == pc = "return" /\ pg = CRANE /\ pt = TRACE

\* The positions of the guess that hold letter l, and those of them marked
\* Correct or Present in the returned pattern
GuessPositions(l) == {i \in Positions : pg[i] = l}

MarkedPositions(l) == {i \in GuessPositions(l) : ret[i] \in {"C", "P"}}

\* A letter the guess holds more often than the target
Surplus(l) == Occurrences(pg, l) > Occurrences(pt, l)

\* C11, as claimed: for a letter l that occurs k times in the target and more
\* often in the guess, the first k occurrences of l in the guess, left to
\* right, are the ones marked Correct or Present, and all later ones are
\* marked Absent.
C11_FirstOccurrencesMarked ==
    pc = "return" =>
        \A l \in Range(pg) :
            Surplus(l) =>
                \A i \in GuessPositions(l) :
                    LET rank == Cardinality({j \in GuessPositions(l) : j <= i})
                    IN  IF rank <= Occurrences(pt, l)
                        THEN ret[i] \in {"C", "P"}
                        ELSE ret[i] = "A"

\* C11, amended: for such a letter exactly k occurrences in the guess are
\* marked Correct or Present: the ones at the positions where guess and target
\* agree, and then the leftmost of the other occurrences; the rest are Absent.
C11_CorrectThenLeftmost ==
    pc = "return" =>
        \A l \in Range(pg) :
            Surplus(l) =>
                /\ Cardinality(MarkedPositions(l)) = Occurrences(pt, l)
                /\ \A i \in GuessPositions(l) :
                      /\ ret[i] \in {"C", "P", "A"}
                      /\ (ret[i] = "C") <=> (pg[i] = pt[i])
                /\ \A i, j \in GuessPositions(l) :
                      (i < j /\ ret[j] = "P") => ret[i] \in {"C", "P"}

\* A call in which an occurrence marked Absent precedes a Correct occurrence
\* of the same letter.
C11_Witness ==
    /\ pc = "return"
    /\ \E l \in Range(pg) :
          /\ Surplus(l)
          /\ Occurrences(pt, l) > 0
          /\ \E i, j \in GuessPositions(l) : i < j /\ ret[i] = "A" /\ ret[j] = "C"

\* The feedbacks argument with every entry but board b's emptied
OnlyFor(feedbacks, b) == [c \in Boards |-> IF c = b THEN feedbacks[c] ELSE <<>>]

\* C12: update_games leaves a board without feedback as it was, and what it
\* does to a board depends on that board's state and feedback alone: the
\* result for board b is the one of a call that gives feedback to b only,
\* made with all other boards new.
C12_BoardsIndependent ==
    pc = "updated" =>
        \A b \in Boards :
            /\ all_feedbacks[b] = <<>> => games[b] = before[1][b]
            /\ games[b] =
                  UpdateGames([c \in Boards |-> IF c = b THEN before[1][b] ELSE NewGame],
                              OnlyFor(all_feedbacks, b))[b]

\* A call that changed one board while another board, holding candidates
\* and recorded letters, got no feedback.
C12_Witness ==
    /\ pc = "updated"
    /\ \E b, c \in Boards :
          /\ all_feedbacks[b] = <<>>
          /\ games[b].possible # <<>>
          /\ games[b].present # {}
          /\ all_feedbacks[c] # <<>>
          /\ games[c] # before[1][c]
          /\ games[c].possible # <<>>

EveryBoardEmpty == \A b \in Boards : games[b].possible = <<>>

\* C13: main performs at most 21 rounds and then stops; it stops as soon as
\* every board's 'possible' list is empty: from then on no guess is selected,
\* no feedback is requested or applied and no board changes; and the stopped
\* state is terminal.
C13_Terminates ==
    /\ <>(pc = "done")
    /\ [](attempt <= MaxAttempts)
    /\ [][pc # "done"]_vars
    /\ [][EveryBoardEmpty =>
             /\ pc \in {"update", "clean"}
             /\ pc' \in {"clean", "done"}
             /\ attempt' = attempt
             /\ best_guess' = best_guess
             /\ asked' = asked
             /\ games' \in {games, CleanConstraints(games)}
             /\ \A b \in Boards : games'[b].possible = <<>>]_vars

\* The loop has run all 21 rounds with a board still active at the end.
C13_Witness ==
    /\ pc = "done"
    /\ attempt = MaxAttempts
    /\ ~ EveryBoardEmpty

\* The combined score of candidate k over the active boards of the state
ScoreOf(k) ==
    CalculateEntropy(Candidates(Allowed)[k], ActiveGames(games), cache).score

\* get_best_guess is the step being taken, and it returns a word
GetBestGuessCall == pc = "select" /\ attempt' = attempt + 1 /\ best_guess' # None

\* C14: with a board active, get_best_guess returns the word of the scanned
\* prefix of the allowed list whose combined score over the active boards is
\* maximal, the one of smallest index among those of maximal score, and the
\* call changes no board.
C14_FirstMaximum ==
    [][GetBestGuessCall =>
          /\ games' = games
          /\ \E k \in DOMAIN Candidates(Allowed) :
                /\ best_guess' = Candidates(Allowed)[k]
                /\ \A j \in DOMAIN Candidates(Allowed) :
                      /\ ScoreOf(j) <= ScoreOf(k)
                      /\ j < k => ScoreOf(j) < ScoreOf(k)]_vars

\* A guess was selected that is not the first word of the list, with a later
\* word of the same, maximal, positive score.
C14_Witness ==
    /\ pc = "collect"
    /\ idx = 1
    /\ \E k, j \in DOMAIN Candidates(Allowed) :
          /\ 1 < k
          /\ k < j
          /\ best_guess = Candidates(Allowed)[k]
          /\ ScoreOf(k) = ScoreOf(j)
          /\ ScoreOf(k) > 0

\* Every active board has exactly one remaining candidate, and there is one
AllActiveSingle ==
    /\ ~ EveryBoardEmpty
    /\ \A b \in Boards : Len(games[b].possible) <= 1

\* C15: when every active board has exactly one remaining candidate, the word
\* get_best_guess returns is the remaining candidate of some active board.
C15_GuessesACandidate ==
    [][(GetBestGuessCall /\ AllActiveSingle) =>
          \E b \in Boards : games[b].possible = <<best_guess'>>]_vars

\* C16: after every round, for every board no letter of 'present' is a value
\* of 'correct', and no letter of 'absent' is a value of 'correct' or a member
\* of 'present'.
C16_ConstraintsDisjoint ==
    RoundBoundary =>
        \A b \in Boards :
            /\ games[b].present \cap CorrectValues(games[b]) = {}
            /\ games[b].absent \cap CorrectValues(games[b]) = {}
            /\ games[b].absent \cap games[b].present = {}

\* After a round, a board with known letters, present letters and absent
\* letters, and a board whose round marked one letter Correct and Present.
C16_Witness ==
    /\ RoundBoundary
    /\ attempt > 0
    /\ \E b \in Boards :
          /\ games[b].present # {}
          /\ games[b].absent # {}
          /\ CorrectValues(games[b]) # {Unknown}
    /\ \E b \in Boards : \E i, j \in Positions :
          /\ all_feedbacks[b] # <<>>
          /\ all_feedbacks[b][i][1] = all_feedbacks[b][j][1]
          /\ all_feedbacks[b][i][2] = "C"
          /\ all_feedbacks[b][j][2] = "P"

\* The boards of a list of board numbers
BoardsIn(list) == {list[k] : k \in DOMAIN list}

Increasing(list) == \A k, m \in DOMAIN list : k < m => list[k] < list[m]

\* C17: in a round with a guess, the boards prompted are exactly the boards
\* active when the guess was selected, each once, in increasing order, and
\* never a board whose 'possible' list is empty; a prompt stores its answer,
\* the guess's letters paired with the symbols, under the prompted board
\* alone, and update_games applies to each board the entry stored for it.
C17_FeedbackProtocol ==
    [][/\ GetBestGuessCall =>
             /\ BoardsIn(active_games') = {b \in Boards : games[b].possible # <<>>}
             /\ Increasing(active_games')
             /\ asked' = <<>>
             /\ \A b \in Boards : all_feedbacks'[b] = <<>>
       /\ pc = "collect" =>
             /\ asked' = Append(asked, active_games[idx])
             /\ games[active_games[idx]].possible # <<>>
             /\ \A b \in Boards :
                   b # active_games[idx] => all_feedbacks'[b] = all_feedbacks[b]
             /\ LET fb == all_feedbacks'[active_games[idx]]
                IN  fb # <<>> =>
                       /\ Len(fb) = WordLen
                       /\ \A i \in Positions :
                             fb[i][1] = best_guess[i] /\ fb[i][2] \in {"C", "P", "A"}
       /\ UpdateGamesCall =>
             /\ asked = active_games
             /\ \A b \in Boards :
                   /\ all_feedbacks[b] # <<>> => b \in BoardsIn(asked)
                   /\ games'[b] = IF all_feedbacks[b] = <<>> THEN games[b]
                                  ELSE UpdateGame(games[b], all_feedbacks[b])]_vars

\* A later round whose prompts skipped an emptied board and are over: a
\* board after the skipped one was prompted and gave feedback.
C17_Witness ==
    /\ pc = "update"
    /\ attempt > 1
    /\ asked = active_games
    /\ \E b, c \in Boards :
          /\ b < c
          /\ b \notin BoardsIn(asked)
          /\ c \in BoardsIn(asked)
          /\ all_feedbacks[c] # <<>>

=============================================================================
